---- MODULE Spec2Model ----
(***************************************************************************)
(* A model of periodicx.PeriodicExecutor (src/periodicx.py): one executor, *)
(* the thread that calls run(), the background thread of a non-blocking    *)
(* run, and a thread that calls cancel() twice, each call at an arbitrary  *)
(* moment.  The loop of sched.scheduler.run and the body of _single are    *)
(* split at the points where another thread can observe or change the      *)
(* shared attributes.  The clock is an integer; one unit can be read as    *)
(* half a second.                                                          *)
(*                                                                         *)
(* Spec is that executor, run once; SpecAnyPeriod adds the periods <= 0.   *)
(* SpecRerun adds a second run() on the running executor, SpecTwo a second *)
(* executor in the same process, SpecSignal a SIGINT during a blocking     *)
(* run(), SpecSelf a func that calls cancel(), and SpecLive states the     *)
(* fairness under which a cancelled loop is shown to end.                  *)
(***************************************************************************)
EXTENDS Integers, Sequences, FiniteSets, TLC

\* ------------------------------------------------------------------ bounds

\* The clock runs from 0 to MaxTime.
MaxTime == 4

\* The periods a valid executor is constructed with, and those the
\* constructor is handed when the caller passes a non-positive period.
Periods == {1, 2}
AllPeriods == Periods \cup {-1, 0}

\* An optional value is <<>> (None) or <<v>>.
None == <<>>
Some(v) == <<v>>

\* The delay argument of run(): None, 0 or 1.
Delays == {None, Some(0), Some(1)}

\* The thread that calls run() and the thread run(blocking=False) starts.
Threads == {"main", "bg"}

\* The calls of cancel(), made one after the other by a thread of their own.
Cancellers == {1, 2}

\* Caps for the runs that never end when period <= 0; neither is reached with
\* a positive period.
MaxCalls == MaxTime + 2
MinNextTime == 0 - MaxTime

\* ------------------------------------------------------------------- state

VARIABLES
    period,        \* self.period
    skip_missed,   \* self.skip_missed
    delay,         \* the delay argument of run()
    blocking,      \* the blocking argument of run()
    now,           \* time.time()
    next_time,     \* self._next_time
    next_event,    \* self._next_event: None or the event, named by its time
    cancelled,     \* self._cancelled
    thread,        \* self._thread: "None", "created", "alive" or "dead"
    sleep_event,   \* self._sleep_event: the flag of the threading.Event
    queue,         \* self._scheduler._queue: the event times, soonest first
    pc,            \* where each of Threads stands
    ret,           \* where _single returns to, for each of Threads
    timeout,       \* the argument handed to _sleep, for each of Threads
    wakeAt,        \* when the timed wait of _sleep runs out
    cpc,           \* where each cancel() call stands
    cwhen,         \* what the executor was doing when that cancel() began
    further,       \* whether a cancel() of the running loop had returned by then
    t0,            \* the first nominal fire time, fixed by run()
    calls,         \* the number of invocations of func started so far
    active,        \* the number of invocations of func in progress
    nominal,       \* the nominal fire time of the latest invocation
    earlyWake,     \* whether a wait has returned before its event was due
    handle_sigint, \* the handle_sigint argument of __init__
    sig,           \* what a SIGINT has done: "none", "handled", "interrupt"
    rerun,         \* whether run() has been called on the running executor
    selfc,         \* cancel() called by func itself: "none", "done", "error"
    peer_pc,       \* where the thread running a second executor stands
    peer_cancelled, \* _cancelled of the second executor
    peer_next_time, \* _next_time of the second executor
    peer_next_event, \* _next_event of the second executor
    peer_queue,    \* _scheduler._queue of the second executor
    peer_timeout,  \* the argument handed to _sleep by the second executor
    peer_wakeAt,   \* when the timed wait of the second executor runs out
    peer_cpc,      \* where the cancel() call on the second executor stands
    peer_early     \* whether a wait of the second executor has ended early

vars == <<period, skip_missed, delay, blocking, now, next_time, next_event,
          cancelled, thread, sleep_event, queue, pc, ret, timeout, wakeAt,
          cpc, cwhen, further, t0, calls, active, nominal, earlyWake,
          handle_sigint, sig, rerun, selfc, peer_pc, peer_cancelled,
          peer_next_time, peer_next_event, peer_queue, peer_timeout,
          peer_wakeAt, peer_cpc, peer_early>>

config == <<period, skip_missed>>
ghosts == <<t0, calls, active, nominal, earlyWake>>
cancels == <<cpc, cwhen, further>>
peer == <<peer_pc, peer_cancelled, peer_next_time, peer_next_event,
          peer_queue, peer_timeout, peer_wakeAt, peer_cpc, peer_early>>
aux == <<handle_sigint, sig, rerun, selfc, peer>>

\* ------------------------------------------------- the scheduler's queue

\* heapq.heappush of sched.scheduler.enterabs: events are ordered by time and,
\* among equal times, by the order in which they were entered.
RECURSIVE Enterabs(_, _)
Enterabs(q, t) ==
    IF q = <<>> THEN <<t>>
    ELSE IF Head(q) <= t THEN <<Head(q)>> \o Enterabs(Tail(q), t)
    ELSE <<t>> \o q

InQueue(q, e) == \E i \in 1..Len(q) : q[i] = e

\* list.remove of sched.scheduler.cancel: the first equal element goes.
RECURSIVE Remove(_, _)
Remove(q, e) ==
    IF q = <<>> THEN <<>>
    ELSE IF Head(q) = e THEN Tail(q)
    ELSE <<Head(q)>> \o Remove(Tail(q), e)

\* ------------------------------------------------------------------- Init

InitWith(periods) ==
    /\ period \in periods
    /\ skip_missed \in BOOLEAN
    /\ delay = None
    /\ blocking = TRUE
    /\ now = 0
    /\ next_time = 0
    /\ next_event = None
    /\ cancelled = FALSE
    /\ thread = "None"
    /\ sleep_event = FALSE
    /\ queue = <<>>
    /\ pc = [t \in Threads |-> IF t = "main" THEN "new" ELSE "unborn"]
    /\ ret = [t \in Threads |-> "none"]
    /\ timeout = [t \in Threads |-> 0]
    /\ wakeAt = [t \in Threads |-> 0]
    /\ cpc = [c \in Cancellers |-> "idle"]
    /\ cwhen = [c \in Cancellers |-> "none"]
    /\ further = [c \in Cancellers |-> FALSE]
    /\ t0 = None
    /\ calls = 0
    /\ active = 0
    /\ nominal = 0
    /\ earlyWake = FALSE
    /\ sig = "none"
    /\ rerun = FALSE
    /\ selfc = "none"
    /\ peer_pc = "idle"
    /\ peer_cancelled = FALSE
    /\ peer_next_time = 0
    /\ peer_next_event = None
    /\ peer_queue = <<>>
    /\ peer_timeout = 0
    /\ peer_wakeAt = 0
    /\ peer_cpc = "idle"
    /\ peer_early = FALSE

\* handle_sigint is left at its default, True.
Init == InitWith(Periods) /\ handle_sigint = TRUE

InitAnyPeriod == InitWith(AllPeriods) /\ handle_sigint = TRUE

\* -------------------------------------------------------------- the clock

Tick ==
    /\ now < MaxTime
    /\ now' = now + 1
    /\ UNCHANGED <<config, aux, delay, blocking, next_time, next_event, cancelled,
                   thread, sleep_event, queue, pc, ret, timeout, wakeAt,
                   cancels, ghosts>>

\* ------------------------------------------------------------ __init__

\* __init__ stores its arguments and builds the scheduler; it checks nothing.
Construct ==
    /\ pc["main"] = "new"
    /\ pc' = [pc EXCEPT !["main"] = "idle"]
    /\ UNCHANGED <<config, aux, delay, blocking, now, next_time, next_event,
                   cancelled, thread, sleep_event, queue, ret, timeout,
                   wakeAt, cancels, ghosts>>

\* ------------------------------------------------------------------ run

\* run, line 59.
RunBegin(d, b) ==
    /\ pc["main"] = "idle"
    /\ cancelled' = FALSE
    /\ delay' = d
    /\ blocking' = b
    /\ pc' = [pc EXCEPT !["main"] = "run_first"]
    /\ UNCHANGED <<config, aux, now, next_time, next_event, thread, sleep_event,
                   queue, ret, timeout, wakeAt, cancels, ghosts>>

\* RunFirst that tests the delay for truth (if not delay) and not for None: a
\* delay of 0 is taken for no delay, and _single is called at once.
RunFirstFalsy ==
    /\ pc["main"] = "run_first"
    /\ IF delay = None \/ delay = Some(0)
       THEN /\ next_time' = now
            /\ nominal' = now
            /\ pc' = [pc EXCEPT !["main"] = "single_check"]
            /\ ret' = [ret EXCEPT !["main"] = "run_mode"]
            /\ UNCHANGED <<queue, next_event>>
       ELSE /\ next_time' = now + delay[1]
            /\ queue' = Enterabs(queue, next_time')
            /\ next_event' = Some(next_time')
            /\ pc' = [pc EXCEPT !["main"] = "run_mode"]
            /\ UNCHANGED <<nominal, ret>>
    /\ t0' = Some(next_time')
    /\ UNCHANGED <<config, aux, delay, blocking, now, cancelled, thread,
                   sleep_event, timeout, wakeAt, cancels, calls, active,
                   earlyWake>>

\* run, lines 61-68: the first fire time, and either the call of _single or
\* the first event.
RunFirst ==
    /\ pc["main"] = "run_first"
    /\ IF delay = None
       THEN /\ next_time' = now
            /\ nominal' = now
            /\ pc' = [pc EXCEPT !["main"] = "single_check"]
            /\ ret' = [ret EXCEPT !["main"] = "run_mode"]
            /\ UNCHANGED <<queue, next_event>>
       ELSE /\ next_time' = now + delay[1]
            /\ queue' = Enterabs(queue, next_time')
            /\ next_event' = Some(next_time')
            /\ pc' = [pc EXCEPT !["main"] = "run_mode"]
            /\ UNCHANGED <<nominal, ret>>
    /\ t0' = Some(next_time')
    /\ UNCHANGED <<config, aux, delay, blocking, now, cancelled, thread,
                   sleep_event, timeout, wakeAt, cancels, calls, active,
                   earlyWake>>

\* run, lines 70-74: the scheduler runs here, or a thread is created for it.
RunMode ==
    /\ pc["main"] = "run_mode"
    /\ IF blocking
       THEN /\ pc' = [pc EXCEPT !["main"] = "sched_top"]
            /\ UNCHANGED thread
       ELSE /\ thread' = "created"
            /\ pc' = [pc EXCEPT !["main"] = "run_start"]
    /\ UNCHANGED <<config, aux, delay, blocking, now, next_time, next_event,
                   cancelled, sleep_event, queue, ret, timeout, wakeAt,
                   cancels, ghosts>>

\* run, line 75.
ThreadStart ==
    /\ pc["main"] = "run_start"
    /\ thread' = "alive"
    /\ pc' = [pc EXCEPT !["main"] = "returned", !["bg"] = "sched_top"]
    /\ UNCHANGED <<config, aux, delay, blocking, now, next_time, next_event,
                   cancelled, sleep_event, queue, ret, timeout, wakeAt,
                   cancels, ghosts>>

\* ----------------------------------------------- scheduler.run and _sleep

\* SchedTop that takes the return of a wait to mean that the time has come:
\* once a wait has returned early, the head of the queue is popped and run
\* without comparing its time with the clock.
SchedTopTrustsWake(t) ==
    /\ pc[t] = "sched_top"
    /\ IF queue = <<>>
       THEN /\ pc' = [pc EXCEPT ![t] = IF t = "bg" THEN "dead" ELSE "returned"]
            /\ thread' = IF t = "bg" THEN "dead" ELSE thread
            /\ UNCHANGED <<queue, timeout, ret, nominal>>
       ELSE IF Head(queue) > now /\ ~earlyWake
       THEN /\ pc' = [pc EXCEPT ![t] = "sched_delay"]
            /\ timeout' = [timeout EXCEPT ![t] = Head(queue) - now]
            /\ UNCHANGED <<queue, thread, ret, nominal>>
       ELSE /\ queue' = Tail(queue)
            /\ nominal' = Head(queue)
            /\ pc' = [pc EXCEPT ![t] = "single_check"]
            /\ ret' = [ret EXCEPT ![t] = "sched_yield"]
            /\ UNCHANGED <<thread, timeout>>
    /\ UNCHANGED <<config, aux, delay, blocking, now, next_time, next_event,
                   cancelled, sleep_event, wakeAt, cancels, t0, calls, active,
                   earlyWake>>

\* One pass of the loop of sched.scheduler.run, under its lock: leave on an
\* empty queue, decide to wait for an event that is not due, or pop a due one
\* and call its action, _single.
SchedTop(t) ==
    /\ pc[t] = "sched_top"
    /\ IF queue = <<>>
       THEN /\ pc' = [pc EXCEPT ![t] = IF t = "bg" THEN "dead" ELSE "returned"]
            /\ thread' = IF t = "bg" THEN "dead" ELSE thread
            /\ UNCHANGED <<queue, timeout, ret, nominal>>
       ELSE IF Head(queue) > now
       THEN /\ pc' = [pc EXCEPT ![t] = "sched_delay"]
            /\ timeout' = [timeout EXCEPT ![t] = Head(queue) - now]
            /\ UNCHANGED <<queue, thread, ret, nominal>>
       ELSE /\ queue' = Tail(queue)
            /\ nominal' = Head(queue)
            /\ pc' = [pc EXCEPT ![t] = "single_check"]
            /\ ret' = [ret EXCEPT ![t] = "sched_yield"]
            /\ UNCHANGED <<thread, timeout>>
    /\ UNCHANGED <<config, aux, delay, blocking, now, next_time, next_event,
                   cancelled, sleep_event, wakeAt, cancels, t0, calls, active,
                   earlyWake>>

\* _sleep, line 118, and the start of the timed wait of line 119.
SleepClear(t) ==
    /\ pc[t] = "sched_delay"
    /\ sleep_event' = FALSE
    /\ wakeAt' = [wakeAt EXCEPT ![t] = now + timeout[t]]
    /\ timeout' = [timeout EXCEPT ![t] = 0]
    /\ pc' = [pc EXCEPT ![t] = "sleep_wait"]
    /\ UNCHANGED <<config, aux, delay, blocking, now, next_time, next_event,
                   cancelled, thread, queue, ret, cancels, ghosts>>

\* SleepWake for a wait without a timeout (self._sleep_event.wait()): only a
\* set() ends it.
SleepWakeUntimed(t) ==
    /\ pc[t] = "sleep_wait"
    /\ sleep_event
    /\ earlyWake' = (earlyWake \/ (queue # <<>> /\ now < Head(queue)))
    /\ wakeAt' = [wakeAt EXCEPT ![t] = 0]
    /\ pc' = [pc EXCEPT ![t] = "sched_top"]
    /\ UNCHANGED <<config, aux, delay, blocking, now, next_time, next_event,
                   cancelled, thread, sleep_event, queue, ret, timeout,
                   cancels, t0, calls, active, nominal>>

\* _sleep, line 119: the wait returns when the flag is set or the timeout has
\* run out, and the scheduler's loop starts over.
SleepWake(t) ==
    /\ pc[t] = "sleep_wait"
    /\ sleep_event \/ now >= wakeAt[t]
    /\ earlyWake' = (earlyWake \/ (queue # <<>> /\ now < Head(queue)))
    /\ wakeAt' = [wakeAt EXCEPT ![t] = 0]
    /\ pc' = [pc EXCEPT ![t] = "sched_top"]
    /\ UNCHANGED <<config, aux, delay, blocking, now, next_time, next_event,
                   cancelled, thread, sleep_event, queue, ret, timeout,
                   cancels, t0, calls, active, nominal>>

\* delayfunc(0) after an action: _sleep(0) clears the flag and does not block.
SchedYield(t) ==
    /\ pc[t] = "sched_yield"
    /\ sleep_event' = FALSE
    /\ pc' = [pc EXCEPT ![t] = "sched_top"]
    /\ UNCHANGED <<config, aux, delay, blocking, now, next_time, next_event,
                   cancelled, thread, queue, ret, timeout, wakeAt, cancels,
                   ghosts>>

\* ---------------------------------------------------------------- _single

\* _single, lines 96-97.
SingleCheck(t) ==
    /\ pc[t] = "single_check"
    /\ IF cancelled
       THEN /\ pc' = [pc EXCEPT ![t] = ret[t]]
            /\ ret' = [ret EXCEPT ![t] = "none"]
       ELSE /\ pc' = [pc EXCEPT ![t] = "single_call"]
            /\ UNCHANGED ret
    /\ UNCHANGED <<config, aux, delay, blocking, now, next_time, next_event,
                   cancelled, thread, sleep_event, queue, timeout, wakeAt,
                   cancels, ghosts>>

\* SingleCall that hands func to a worker and does not wait for it: _single
\* goes on to line 103 while the invocation is still in progress.
SingleCallAsync(t) ==
    /\ pc[t] = "single_call"
    /\ calls < MaxCalls
    /\ pc' = [pc EXCEPT ![t] = "single_next"]
    /\ calls' = calls + 1
    /\ active' = active + 1
    /\ next_time' = next_time + period
    /\ UNCHANGED <<config, aux, delay, blocking, now, next_event, cancelled,
                   thread, sleep_event, queue, ret, timeout, wakeAt, cancels,
                   t0, nominal, earlyWake>>

\* _single, line 100: func is called.
SingleCall(t) ==
    /\ pc[t] = "single_call"
    /\ calls < MaxCalls
    /\ pc' = [pc EXCEPT ![t] = "in_func"]
    /\ calls' = calls + 1
    /\ active' = active + 1
    /\ UNCHANGED <<config, aux, delay, blocking, now, next_time, next_event,
                   cancelled, thread, sleep_event, queue, ret, timeout,
                   wakeAt, cancels, t0, nominal, earlyWake>>

\* FuncReturn with the next fire time taken from the clock instead of from the
\* previous fire time (the schedule drifts by the duration of the invocation).
FuncReturnDrift(t) ==
    /\ pc[t] = "in_func"
    /\ active' = active - 1
    /\ next_time' = now + period
    /\ pc' = [pc EXCEPT ![t] = "single_next"]
    /\ UNCHANGED <<config, aux, delay, blocking, now, next_event, cancelled,
                   thread, sleep_event, queue, ret, timeout, wakeAt, cancels,
                   t0, calls, nominal, earlyWake>>

\* func returns, and line 103 adds one period.
FuncReturn(t) ==
    /\ pc[t] = "in_func"
    /\ active' = active - 1
    /\ next_time' = next_time + period
    /\ pc' = [pc EXCEPT ![t] = "single_next"]
    /\ UNCHANGED <<config, aux, delay, blocking, now, next_event, cancelled,
                   thread, sleep_event, queue, ret, timeout, wakeAt, cancels,
                   t0, calls, nominal, earlyWake>>


\* FuncRaise with a handler around line 100 that swallows the exception and
\* calls func again.
FuncRaiseRetry(t) ==
    /\ pc[t] = "in_func"
    /\ active' = active - 1
    /\ pc' = [pc EXCEPT ![t] = "single_call"]
    /\ UNCHANGED <<config, aux, delay, blocking, now, next_time, next_event,
                   cancelled, thread, sleep_event, queue, ret, timeout,
                   wakeAt, cancels, t0, calls, nominal, earlyWake>>

\* func raises at line 100: nothing in _single, in sched.scheduler.run or in
\* run catches the exception, so it leaves them all.  Lines 103-111 are not
\* reached; the blocking run() ends with the exception, the background
\* thread dies of it.
FuncRaise(t) ==
    /\ pc[t] = "in_func"
    /\ active' = active - 1
    /\ pc' = [pc EXCEPT ![t] = "raised"]
    /\ ret' = [ret EXCEPT ![t] = "none"]
    /\ thread' = IF t = "bg" THEN "dead" ELSE thread
    /\ UNCHANGED <<config, aux, delay, blocking, now, next_time, next_event,
                   cancelled, sleep_event, queue, timeout, wakeAt, cancels,
                   t0, calls, nominal, earlyWake>>

\* SingleNext with <= for < in the loop of line 107: a fire time equal to the
\* current time counts as missed.
SingleNextOffByOne(t) ==
    /\ pc[t] = "single_next"
    /\ IF skip_missed /\ next_time <= now
       THEN /\ next_time + period >= MinNextTime
            /\ next_time' = next_time + period
            /\ UNCHANGED <<queue, next_event, pc, ret>>
       ELSE /\ queue' = Enterabs(queue, next_time)
            /\ next_event' = Some(next_time)
            /\ pc' = [pc EXCEPT ![t] = ret[t]]
            /\ ret' = [ret EXCEPT ![t] = "none"]
            /\ UNCHANGED next_time
    /\ UNCHANGED <<config, aux, delay, blocking, now, cancelled, thread,
                   sleep_event, timeout, wakeAt, cancels, ghosts>>

\* SingleNext that does not read skip_missed: missed fire times are always
\* skipped.
SingleNextAlwaysSkip(t) ==
    /\ pc[t] = "single_next"
    /\ IF next_time < now
       THEN /\ next_time + period >= MinNextTime
            /\ next_time' = next_time + period
            /\ UNCHANGED <<queue, next_event, pc, ret>>
       ELSE /\ queue' = Enterabs(queue, next_time)
            /\ next_event' = Some(next_time)
            /\ pc' = [pc EXCEPT ![t] = ret[t]]
            /\ ret' = [ret EXCEPT ![t] = "none"]
            /\ UNCHANGED next_time
    /\ UNCHANGED <<config, aux, delay, blocking, now, cancelled, thread,
                   sleep_event, timeout, wakeAt, cancels, ghosts>>

\* _single, lines 105-111: one pass of the loop that skips missed fire times,
\* or the next event is entered and _single returns.
SingleNext(t) ==
    /\ pc[t] = "single_next"
    /\ IF skip_missed /\ next_time < now
       THEN /\ next_time + period >= MinNextTime
            /\ next_time' = next_time + period
            /\ UNCHANGED <<queue, next_event, pc, ret>>
       ELSE /\ queue' = Enterabs(queue, next_time)
            /\ next_event' = Some(next_time)
            /\ pc' = [pc EXCEPT ![t] = ret[t]]
            /\ ret' = [ret EXCEPT ![t] = "none"]
            /\ UNCHANGED next_time
    /\ UNCHANGED <<config, aux, delay, blocking, now, cancelled, thread,
                   sleep_event, timeout, wakeAt, cancels, ghosts>>

\* ------------------------------------------------------------------ cancel

Waiting(t) == pc[t] \in {"sched_delay", "sleep_wait"}

\* cancel, line 78.
CancelBegin(c) ==
    /\ cpc[c] = "idle"
    /\ \A o \in Cancellers : o < c => cpc[o] \in {"done", "error"}
    /\ pc["main"] # "new"
    /\ cancelled' = TRUE
    /\ cpc' = [cpc EXCEPT ![c] = "cancel_event"]
    /\ cwhen' = [cwhen EXCEPT ![c] =
                    IF pc["main"] = "idle" THEN "prerun"
                    ELSE IF \E t \in Threads : pc[t] = "raised" THEN "raised"
                    ELSE IF \E t \in Threads : Waiting(t) THEN "wait"
                    ELSE IF active > 0 THEN "invoking"
                    ELSE "run"]
    /\ further' = [further EXCEPT ![c] =
                    \E o \in Cancellers \ {c} :
                        cpc[o] = "done" /\ cwhen[o] \in {"wait", "invoking"}]
    /\ UNCHANGED <<config, aux, delay, blocking, now, next_time, next_event,
                   thread, sleep_event, queue, pc, ret, timeout, wakeAt,
                   ghosts>>

\* cancel, lines 80-85: the event is removed from the queue; the ValueError
\* for an event that is no longer there is swallowed.
CancelEvent(c) ==
    /\ cpc[c] = "cancel_event"
    /\ queue' = IF next_event # None /\ InQueue(queue, next_event[1])
                THEN Remove(queue, next_event[1])
                ELSE queue
    /\ cpc' = [cpc EXCEPT ![c] = "cancel_set"]
    /\ UNCHANGED <<config, aux, delay, blocking, now, next_time, next_event,
                   cancelled, thread, sleep_event, pc, ret, timeout, wakeAt,
                   cwhen, further, ghosts>>

\* cancel, line 87.
CancelSet(c) ==
    /\ cpc[c] = "cancel_set"
    /\ sleep_event' = TRUE
    /\ cpc' = [cpc EXCEPT ![c] = "cancel_join"]
    /\ UNCHANGED <<config, aux, delay, blocking, now, next_time, next_event,
                   cancelled, thread, queue, pc, ret, timeout, wakeAt,
                   cwhen, further, ghosts>>

\* cancel, lines 89-90: no thread, nothing to join; a thread that is alive is
\* waited for; Thread.join raises RuntimeError on a thread not yet started.
CancelJoin(c) ==
    /\ cpc[c] = "cancel_join"
    /\ thread # "alive"
    /\ cpc' = [cpc EXCEPT ![c] = IF thread = "created" THEN "error" ELSE "done"]
    /\ UNCHANGED <<config, aux, delay, blocking, now, next_time, next_event,
                   cancelled, thread, sleep_event, queue, pc, ret, timeout,
                   wakeAt, cwhen, further, ghosts>>

\* -------------------------------------------------------------------- Next

Next ==
    \/ Tick
    \/ Construct
    \/ \E d \in Delays, b \in BOOLEAN : RunBegin(d, b)
    \/ RunFirst
    \/ RunMode
    \/ ThreadStart
    \/ \E t \in Threads : SchedTop(t)
    \/ \E t \in Threads : SleepClear(t)
    \/ \E t \in Threads : SleepWake(t)
    \/ \E t \in Threads : SchedYield(t)
    \/ \E t \in Threads : SingleCheck(t)
    \/ \E t \in Threads : SingleCall(t)
    \/ \E t \in Threads : FuncReturn(t)
    \/ \E t \in Threads : FuncRaise(t)
    \/ \E t \in Threads : SingleNext(t)
    \/ \E c \in Cancellers : CancelBegin(c)
    \/ \E c \in Cancellers : CancelEvent(c)
    \/ \E c \in Cancellers : CancelSet(c)
    \/ \E c \in Cancellers : CancelJoin(c)

\* Executors constructed with a positive period.
Spec == Init /\ [][Next]_vars

\* Executors constructed with any period the constructor accepts.
SpecAnyPeriod == InitAnyPeriod /\ [][Next]_vars

\* ------------------------------------------------- run() on a running executor

\* run, line 59, called again by the thread that got the executor back from a
\* non-blocking run, while the background thread is in the scheduler's loop.
\* run() has no check of its own: the call goes on to lines 61-75 like the
\* first one.  The second call is a blocking one.
RunAgain(d) ==
    /\ pc["main"] = "returned"
    /\ thread = "alive"
    /\ ~rerun
    /\ rerun' = TRUE
    /\ cancelled' = FALSE
    /\ delay' = d
    /\ blocking' = TRUE
    /\ pc' = [pc EXCEPT !["main"] = "run_first"]
    /\ UNCHANGED <<config, handle_sigint, sig, selfc, peer, now, next_time,
                   next_event, thread, sleep_event, queue, ret, timeout,
                   wakeAt, cancels, ghosts>>

\* The steps of an executor that is started in the background and never
\* cancelled, and of the second call of run().
NextRerun ==
    \/ Tick
    \/ Construct
    \/ \E d \in Delays : RunBegin(d, FALSE)
    \/ \E d \in Delays : RunAgain(d)
    \/ RunFirst
    \/ RunMode
    \/ ThreadStart
    \/ \E t \in Threads : SchedTop(t)
    \/ \E t \in Threads : SleepClear(t)
    \/ \E t \in Threads : SleepWake(t)
    \/ \E t \in Threads : SchedYield(t)
    \/ \E t \in Threads : SingleCheck(t)
    \/ \E t \in Threads : SingleCall(t)
    \/ \E t \in Threads : FuncReturn(t)
    \/ \E t \in Threads : FuncRaise(t)
    \/ \E t \in Threads : SingleNext(t)

\* One executor, started in the background, on which run() is called a
\* second time while its loop is running and which nobody cancels.
SpecRerun == Init /\ [][NextRerun]_vars

\* ------------------------------------------------------- a second executor

\* The second executor is constructed with this period and skip_missed=True
\* and is run, blocking, by a thread of its own with this delay.
PeerPeriod == 2
PeerDelay == 1

\* What the steps of the second executor leave alone: every attribute of the
\* first one but _sleep_event, which is an attribute of the class (line 29)
\* that no instance ever rebinds, and so is the same Event for both.
own == <<config, handle_sigint, sig, rerun, selfc, delay, blocking, next_time,
         next_event, cancelled, thread, queue, pc, ret, timeout, wakeAt,
         cancels, ghosts>>

\* run(delay=PeerDelay) on the second executor, lines 59-72.
PeerRun ==
    /\ peer_pc = "idle"
    /\ pc["main"] # "new"
    /\ peer_cancelled' = FALSE
    /\ peer_next_time' = now + PeerDelay
    /\ peer_queue' = Enterabs(peer_queue, peer_next_time')
    /\ peer_next_event' = Some(peer_next_time')
    /\ peer_pc' = "sched_top"
    /\ UNCHANGED <<own, now, sleep_event, peer_timeout, peer_wakeAt, peer_cpc,
                   peer_early>>

\* The next fire time lines 103-108 arrive at, from x at the clock reading n.
RECURSIVE SkipTo(_, _)
SkipTo(x, n) == IF x < n THEN SkipTo(x + PeerPeriod, n) ELSE x

\* One pass of the loop of sched.scheduler.run of the second executor.  A due
\* event is popped and _single runs, lines 96-111, with a func that returns
\* at once; the delayfunc(0) that follows clears the Event (line 118).
PeerSchedTop ==
    /\ peer_pc = "sched_top"
    /\ IF peer_queue = <<>>
       THEN /\ peer_pc' = "returned"
            /\ UNCHANGED <<peer_queue, peer_timeout, peer_next_time,
                           peer_next_event, sleep_event>>
       ELSE IF Head(peer_queue) > now
       THEN /\ peer_pc' = "sched_delay"
            /\ peer_timeout' = Head(peer_queue) - now
            /\ UNCHANGED <<peer_queue, peer_next_time, peer_next_event,
                           sleep_event>>
       ELSE /\ IF peer_cancelled
               THEN /\ peer_queue' = Tail(peer_queue)
                    /\ UNCHANGED <<peer_next_time, peer_next_event>>
               ELSE /\ peer_next_time' =
                           SkipTo(peer_next_time + PeerPeriod, now)
                    /\ peer_queue' =
                           Enterabs(Tail(peer_queue), peer_next_time')
                    /\ peer_next_event' = Some(peer_next_time')
            /\ sleep_event' = FALSE
            /\ UNCHANGED <<peer_pc, peer_timeout>>
    /\ UNCHANGED <<own, now, peer_cancelled, peer_wakeAt, peer_cpc, peer_early>>

\* _sleep of the second executor, line 118 and the start of the wait.
PeerSleepClear ==
    /\ peer_pc = "sched_delay"
    /\ sleep_event' = FALSE
    /\ peer_wakeAt' = now + peer_timeout
    /\ peer_timeout' = 0
    /\ peer_pc' = "sleep_wait"
    /\ UNCHANGED <<own, now, peer_cancelled, peer_next_time, peer_next_event,
                   peer_queue, peer_cpc, peer_early>>

\* _sleep of the second executor, line 119: the wait returns.
PeerSleepWake ==
    /\ peer_pc = "sleep_wait"
    /\ sleep_event \/ now >= peer_wakeAt
    /\ peer_early' = (peer_early \/ now < peer_wakeAt)
    /\ peer_wakeAt' = 0
    /\ peer_pc' = "sched_top"
    /\ UNCHANGED <<own, now, sleep_event, peer_cancelled, peer_next_time,
                   peer_next_event, peer_queue, peer_timeout, peer_cpc>>

\* cancel() on the second executor, lines 78-85.
PeerCancelBegin ==
    /\ peer_cpc = "idle"
    /\ peer_pc \notin {"idle", "returned"}
    /\ peer_cancelled' = TRUE
    /\ peer_queue' = IF peer_next_event # None
                        /\ InQueue(peer_queue, peer_next_event[1])
                     THEN Remove(peer_queue, peer_next_event[1])
                     ELSE peer_queue
    /\ peer_cpc' = "cancel_set"
    /\ UNCHANGED <<own, now, sleep_event, peer_pc, peer_next_time,
                   peer_next_event, peer_timeout, peer_wakeAt, peer_early>>

\* cancel() on the second executor, lines 87-90; it has no thread to join.
PeerCancelSet ==
    /\ peer_cpc = "cancel_set"
    /\ sleep_event' = TRUE
    /\ peer_cpc' = "done"
    /\ UNCHANGED <<own, now, peer_pc, peer_cancelled, peer_next_time,
                   peer_next_event, peer_queue, peer_timeout, peer_wakeAt,
                   peer_early>>

\* The steps of two executors in one process: the first is run blocking,
\* with a delay, and cancelled once.
NextTwo ==
    \/ Tick
    \/ Construct
    \/ RunBegin(Some(1), TRUE)
    \/ RunFirst
    \/ RunMode
    \/ \E t \in Threads : SchedTop(t)
    \/ \E t \in Threads : SleepClear(t)
    \/ \E t \in Threads : SleepWake(t)
    \/ \E t \in Threads : SchedYield(t)
    \/ \E t \in Threads : SingleCheck(t)
    \/ \E t \in Threads : SingleCall(t)
    \/ \E t \in Threads : FuncReturn(t)
    \/ \E t \in Threads : SingleNext(t)
    \/ CancelBegin(1)
    \/ CancelEvent(1)
    \/ CancelSet(1)
    \/ CancelJoin(1)
    \/ PeerRun
    \/ PeerSchedTop
    \/ PeerSleepClear
    \/ PeerSleepWake
    \/ PeerCancelBegin
    \/ PeerCancelSet

\* Both executors have the same period and skip missed fire times.
InitTwo == InitWith({PeerPeriod}) /\ skip_missed /\ handle_sigint = TRUE

\* Two executors running at the same time.
SpecTwo == InitTwo /\ [][NextTwo]_vars

\* ------------------------------------------------------------- fairness

\* The clock beyond MaxTime: it goes on for a loop that has been cancelled and
\* sits in a wait that has not run out.
TickLate ==
    /\ now >= MaxTime
    /\ cancelled
    /\ \E t \in Threads : pc[t] = "sleep_wait" /\ now < wakeAt[t]
    /\ now' = now + 1
    /\ UNCHANGED <<config, aux, delay, blocking, next_time, next_event,
                   cancelled, thread, sleep_event, queue, pc, ret, timeout,
                   wakeAt, cancels, ghosts>>

\* The steps of an executor that is run once and cancelled once.
NextLive ==
    \/ Tick
    \/ TickLate
    \/ Construct
    \/ \E d \in Delays, b \in BOOLEAN : RunBegin(d, b)
    \/ RunFirst
    \/ RunMode
    \/ ThreadStart
    \/ \E t \in Threads : SchedTop(t)
    \/ \E t \in Threads : SleepClear(t)
    \/ \E t \in Threads : SleepWake(t)
    \/ \E t \in Threads : SchedYield(t)
    \/ \E t \in Threads : SingleCheck(t)
    \/ \E t \in Threads : SingleCall(t)
    \/ \E t \in Threads : FuncReturn(t)
    \/ \E t \in Threads : FuncRaise(t)
    \/ \E t \in Threads : SingleNext(t)
    \/ CancelBegin(1)
    \/ CancelEvent(1)
    \/ CancelSet(1)
    \/ CancelJoin(1)

\* The steps of the clock.
Clock == Tick \/ TickLate

\* The steps thread t takes once it has been set going: the rest of run(),
\* the scheduler's loop, _single, and the return of func.
Steps(t) ==
    \/ (t = "main" /\ (RunFirst \/ RunMode \/ ThreadStart))
    \/ SchedTop(t)
    \/ SleepClear(t)
    \/ SleepWake(t)
    \/ SchedYield(t)
    \/ SingleCheck(t)
    \/ SingleCall(t)
    \/ FuncReturn(t)
    \/ SingleNext(t)

\* The steps of a cancel() call after its first.
CancelSteps(c) == CancelEvent(c) \/ CancelSet(c) \/ CancelJoin(c)

\* The clock keeps advancing, every thread that can take a step is scheduled
\* in the end, and func returns.
Fairness ==
    /\ WF_vars(Clock)
    /\ \A t \in Threads : WF_vars(Steps(t))
    /\ WF_vars(CancelSteps(1))

SpecLive == Init /\ [][NextLive]_vars /\ Fairness

\* ------------------------------------------------------------------ SIGINT

\* The thread that called a blocking run() is between line 59 and the return
\* of run().
InRun == pc["main"] \notin {"new", "idle", "returned", "raised"}

\* SIGINT with the handler of lines 50-51 installed: the interpreter runs
\* _signal_handler on the main thread between two of its instructions, and
\* the handler calls cancel(), lines 78-90, which finds no thread to join.
SigintHandler ==
    /\ handle_sigint
    /\ sig = "none"
    /\ InRun
    /\ sig' = "handled"
    /\ cancelled' = TRUE
    /\ queue' = IF next_event # None /\ InQueue(queue, next_event[1])
                THEN Remove(queue, next_event[1])
                ELSE queue
    /\ sleep_event' = TRUE
    /\ UNCHANGED <<config, handle_sigint, rerun, selfc, peer, delay, blocking,
                   now, next_time, next_event, thread, pc, ret, timeout,
                   wakeAt, cancels, ghosts>>

\* SIGINT with handle_sigint=False: the executor has installed nothing, the
\* interpreter's own handler raises KeyboardInterrupt in the main thread, and
\* run() is left with it; cancel() is not called.
SigintDefault ==
    /\ ~handle_sigint
    /\ sig = "none"
    /\ InRun
    /\ sig' = "interrupt"
    /\ active' = IF pc["main"] = "in_func" THEN active - 1 ELSE active
    /\ pc' = [pc EXCEPT !["main"] = "raised"]
    /\ ret' = [ret EXCEPT !["main"] = "none"]
    /\ timeout' = [timeout EXCEPT !["main"] = 0]
    /\ wakeAt' = [wakeAt EXCEPT !["main"] = 0]
    /\ UNCHANGED <<config, handle_sigint, rerun, selfc, peer, delay, blocking,
                   now, next_time, next_event, cancelled, thread, sleep_event,
                   queue, cancels, t0, calls, nominal, earlyWake>>

\* The steps of a blocking run() that a SIGINT may interrupt.
NextSignal ==
    \/ Tick
    \/ Construct
    \/ \E d \in Delays : RunBegin(d, TRUE)
    \/ RunFirst
    \/ RunMode
    \/ \E t \in Threads : SchedTop(t)
    \/ \E t \in Threads : SleepClear(t)
    \/ \E t \in Threads : SleepWake(t)
    \/ \E t \in Threads : SchedYield(t)
    \/ \E t \in Threads : SingleCheck(t)
    \/ \E t \in Threads : SingleCall(t)
    \/ \E t \in Threads : FuncReturn(t)
    \/ \E t \in Threads : FuncRaise(t)
    \/ \E t \in Threads : SingleNext(t)
    \/ SigintHandler
    \/ SigintDefault

\* Executors constructed with handle_sigint=True and with handle_sigint=False.
InitSignal == InitWith(Periods) /\ handle_sigint \in BOOLEAN

\* One executor in a blocking run(), and one SIGINT.
SpecSignal == InitSignal /\ [][NextSignal]_vars

\* ------------------------------------------------- cancel() called by func

\* func calls cancel() on its own executor, lines 78-90, on the thread that
\* runs the invocation.  On the background thread self._thread is that very
\* thread: Thread.join raises RuntimeError (cannot join current thread), the
\* exception leaves func and the thread dies of it, as in FuncRaise.
SelfCancel(t) ==
    /\ pc[t] = "in_func"
    /\ selfc = "none"
    /\ cancelled' = TRUE
    /\ queue' = IF next_event # None /\ InQueue(queue, next_event[1])
                THEN Remove(queue, next_event[1])
                ELSE queue
    /\ sleep_event' = TRUE
    /\ IF thread = "alive" /\ t = "bg"
       THEN /\ selfc' = "error"
            /\ active' = active - 1
            /\ pc' = [pc EXCEPT ![t] = "raised"]
            /\ ret' = [ret EXCEPT ![t] = "none"]
            /\ thread' = "dead"
       ELSE /\ selfc' = "done"
            /\ UNCHANGED <<active, pc, ret, thread>>
    /\ UNCHANGED <<config, handle_sigint, sig, rerun, peer, delay, blocking,
                   now, next_time, next_event, timeout, wakeAt, cancels, t0,
                   calls, nominal, earlyWake>>

\* The steps of an executor whose func may call cancel() on it, and which
\* nobody else cancels.
NextSelf ==
    \/ Tick
    \/ Construct
    \/ \E d \in Delays, b \in BOOLEAN : RunBegin(d, b)
    \/ RunFirst
    \/ RunMode
    \/ ThreadStart
    \/ \E t \in Threads : SchedTop(t)
    \/ \E t \in Threads : SleepClear(t)
    \/ \E t \in Threads : SleepWake(t)
    \/ \E t \in Threads : SchedYield(t)
    \/ \E t \in Threads : SingleCheck(t)
    \/ \E t \in Threads : SingleCall(t)
    \/ \E t \in Threads : FuncReturn(t)
    \/ \E t \in Threads : FuncRaise(t)
    \/ \E t \in Threads : SingleNext(t)
    \/ \E t \in Threads : SelfCancel(t)

\* One executor whose func may call cancel().
SpecSelf == Init /\ [][NextSelf]_vars

\* ------------------------------------------------------------------ claims

\* The grid points t0 + k*period, k >= 0, of a run whose t0 is fixed.
MaxK == 2 * MaxTime + 4
OnGrid(x) == \E k \in 0..MaxK : x = t0[1] + k * period

\* C1: once run() has fixed t0, nextFireTime is t0 + k*period for some k >= 0
\* in every state, and every step that changes nextFireTime adds a positive
\* whole multiple of period to it (so it never decreases and is never taken
\* from the current time).
C1_GridAdvance ==
    /\ [](t0 # None => OnGrid(next_time))
    /\ [][t0 # None =>
            \/ next_time' = next_time
            \/ \E k \in 1..MaxK : /\ next_time' = next_time + k * period
                                  /\ next_time' > next_time]_vars

\* C1 witness: one invocation has returned late and the skipping loop has
\* moved nextFireTime two periods past t0.
C1_Witness ==
    /\ t0 # None
    /\ period = 2
    /\ calls = 1
    /\ next_time = t0[1] + 2 * period
    /\ next_event = Some(next_time)

\* C2: with skip_missed, when the next event is entered at a time now that is
\* later than the nominal fire time of the invocation that just returned plus
\* period, the fire time chosen is the smallest grid point >= now, it is the
\* only event pending, and every invocation fires at the nextFireTime chosen
\* (no grid point that was passed over gets an invocation of its own).
C2_SkipMissed ==
    /\ [][\A t \in Threads :
            ( /\ pc[t] = "single_next"
              /\ pc'[t] # "single_next"
              /\ skip_missed
              /\ now > nominal + period )
            => /\ OnGrid(next_time')
               /\ next_time' >= now
               /\ next_time' - period < now
               /\ queue' = <<next_time'>>]_vars
    /\ [](\A t \in Threads :
            (skip_missed /\ pc[t] \in {"single_check", "single_call", "in_func"})
            => nominal = next_time)

\* C2 witness: period 1, delay 0, the first invocation returned after time 2,
\* and the second invocation is running with nominal time 3.
C2_Witness ==
    /\ skip_missed
    /\ period = 1
    /\ delay = Some(0)
    /\ t0 = Some(0)
    /\ calls = 2
    /\ active = 1
    /\ nominal = 3

\* C3: without skip_missed, the n-th invocation (n = calls - 1) has the
\* nominal fire time t0 + n*period, and the loop decides to wait only for an
\* event whose time is still in the future: an event that is already due is
\* popped and run at once.
C3_NoSkipGrid ==
    ~skip_missed =>
        \A t \in Threads :
            /\ pc[t] \in {"single_call", "in_func"} =>
                   /\ nominal = next_time
                   /\ nominal = t0[1] + (IF pc[t] = "in_func" THEN calls - 1 ELSE calls) * period
            /\ pc[t] = "sched_delay" => timeout[t] > 0

\* C3 witness: period 1, the first invocation ran from 0 until after time 2,
\* and the third invocation, nominal time 2, is running at time 3.
C3_Witness ==
    /\ ~skip_missed
    /\ period = 1
    /\ t0 = Some(0)
    /\ calls = 3
    /\ active = 1
    /\ nominal = 2
    /\ now = 3

\* C4: whenever the loop has left the wait for an invocation (the event is
\* popped, func is about to be called or is running), the clock has reached
\* the nominal fire time, also after a wait that returned early.
C4_NotBeforeNominal ==
    \A t \in Threads :
        pc[t] \in {"single_check", "single_call", "in_func"} =>
            /\ now >= next_time
            /\ now >= nominal

\* C4 witness: a wait has returned before the pending event was due, and an
\* invocation that went through the wait is running.
C4_Witness ==
    /\ earlyWake
    /\ delay # None
    /\ active = 1
    /\ \E t \in Threads : pc[t] = "in_func" /\ ret[t] = "sched_yield"

\* C5: at most one invocation of func is in progress, and when func is about
\* to be called no invocation is in progress.
C5_NoOverlap ==
    /\ active <= 1
    /\ active = Cardinality({t \in Threads : pc[t] = "in_func"})
    /\ \A t \in Threads : pc[t] = "single_call" => active = 0

\* C5 witness: non-blocking run without delay; the first invocation has
\* returned and the second is running on the background thread.
C5_Witness ==
    /\ ~blocking
    /\ delay = None
    /\ calls = 2
    /\ active = 1
    /\ pc["bg"] = "in_func"

\* C6: from a state in which cancelled is true, no step starts an invocation
\* of func.
C6_Claim == [][cancelled => calls' = calls]_vars

\* C7: in a non-blocking run, once a cancel() that was called during an
\* invocation has returned, no invocation is in progress.
C7_Claim ==
    \A c \in Cancellers :
        (~blocking /\ cwhen[c] = "invoking" /\ cpc[c] = "done") => active = 0

\* C8: once a cancel() that was called while the loop was waiting (it had
\* decided to wait, or was blocked in the wait) has set the wake-up flag, the
\* loop is not blocked in a wait that only the clock can end.
C8_Claim ==
    \A c \in Cancellers :
        (cwhen[c] = "wait" /\ cpc[c] \in {"cancel_join", "done"}) =>
            ~ \E t \in Threads :
                /\ pc[t] = "sleep_wait"
                /\ ~sleep_event
                /\ now < wakeAt[t]

\* C9: a cancel() made after an earlier cancel(), one called while the loop
\* was waiting or invoking func, has returned changes no schedule state: not
\* the flag, not nextFireTime, not the pending event.
C9_Claim ==
    [][\A c \in Cancellers :
          (further'[c] /\ cpc'[c] # cpc[c]) =>
              UNCHANGED <<cancelled, next_time, next_event, queue>>]_vars

\* C10: with period <= 0 the constructor fails: the executor never leaves
\* the state before construction, func is never invoked, and the loop of
\* lines 107-108 is never entered.
C10_Claim ==
    period <= 0 =>
        /\ pc["main"] = "new"
        /\ calls = 0
        /\ \A t \in Threads : pc[t] # "single_next"

\* C11: a second run() on an executor whose loop is running, with no cancel()
\* before it, is rejected: the executor never has two pending events, two
\* invocations in progress or two threads in the scheduler's loop.
C11_Claim ==
    (rerun /\ \A c \in Cancellers : cwhen[c] = "none") =>
        /\ Len(queue) <= 1
        /\ active <= 1
        /\ ~(pc["bg"] \notin {"unborn", "dead", "raised"}
             /\ pc["main"] \notin {"returned", "raised", "run_first"})

\* The part of _single a thread is in, from line 96 to line 111.
InSingle(t) == pc[t] \in {"single_check", "single_call", "in_func", "single_next"}

\* C12: run() fixes t0 = now without a delay and t0 = now + delay with one
\* (0 included).  Without a delay run() calls _single itself, before the
\* scheduler's loop and so before any wait: a thread only ever waits after
\* that call (or after a cancel() that took its place).  With a delay the
\* first event is entered for t0 and every invocation comes from the
\* scheduler's loop; none starts before the clock has reached t0.
C12_FirstFireTime ==
    /\ [][(pc["main"] = "run_first" /\ pc'["main"] # "run_first") =>
            /\ t0' = Some(now + (IF delay = None THEN 0 ELSE delay[1]))
            /\ next_time' = t0'[1]
            /\ IF delay = None
               THEN /\ pc'["main"] = "single_check"
                    /\ ret'["main"] = "run_mode"
                    /\ queue' = queue
               ELSE /\ pc'["main"] = "run_mode"
                    /\ queue' = Enterabs(queue, t0'[1])
                    /\ next_event' = t0']_vars
    /\ []((t0 # None /\ delay = None) =>
            /\ (\E t \in Threads : Waiting(t)) => (calls >= 1 \/ cancelled)
            /\ (calls = 1 /\ active = 1) =>
                    /\ pc["main"] = "in_func"
                    /\ ret["main"] = "run_mode"
                    /\ nominal = t0[1]
                    /\ pc["bg"] = "unborn")
    /\ []((t0 # None /\ delay # None) =>
            /\ \A t \in Threads : InSingle(t) => ret[t] = "sched_yield"
            /\ calls >= 1 => now >= t0[1])
    /\ [][(t0 # None /\ calls' > calls) => now >= t0[1]]_vars

\* C12 witness: run(delay=1) was called when the clock read 1, and the first
\* invocation is in progress at t0 = 2, on the background thread.
C12_Witness ==
    /\ delay = Some(1)
    /\ t0 = Some(2)
    /\ calls = 1
    /\ active = 1
    /\ nominal = 2
    /\ pc["bg"] = "in_func"

\* C13: with blocking=False no invocation of func is executed by the thread
\* that called run(): only the background thread is ever inside func.
C13_Claim ==
    ~blocking => \A t \in Threads : pc[t] = "in_func" => t = "bg"

\* C14: an exception of func is not caught and the call is not retried.  The
\* step that leaves func without going on to line 103 ends the loop of that
\* thread for good (the blocking run() is left, the background thread is
\* dead) and changes neither nextFireTime nor the queue; after it no event is
\* pending, nextFireTime stays as it is, no invocation starts, and a cancel()
\* begun after it meets no error and no thread to wait for.
C14_RaiseEndsLoop ==
    /\ [][\A t \in Threads :
            (pc[t] = "in_func" /\ pc'[t] \notin {"in_func", "single_next"}) =>
                /\ pc'[t] = "raised"
                /\ UNCHANGED <<next_time, next_event, queue, calls>>
                /\ queue = <<>>
                /\ t = "bg" => thread' = "dead"]_vars
    /\ [][(\E t \in Threads : pc[t] = "raised") =>
            /\ UNCHANGED <<next_time, calls, active>>
            /\ queue' = <<>>
            /\ \A t \in Threads : pc[t] = "raised" => pc'[t] = "raised"]_vars
    /\ [](\A c \in Cancellers : cwhen[c] = "raised" =>
            /\ cpc[c] # "error"
            /\ thread \in {"None", "dead"})

\* C14 witness: func has raised on the background thread, which is dead, and
\* a cancel() called after that has returned; the event it looked for was the
\* one the scheduler had popped.
C14_Witness ==
    /\ pc["bg"] = "raised"
    /\ thread = "dead"
    /\ calls = 2
    /\ next_event # None
    /\ \E c \in Cancellers : cwhen[c] = "raised" /\ cpc[c] = "done"

\* C15: after a cancel() that began while func was executing, the loop takes
\* the cancellation when the invocation returns: no new event is entered and
\* no thread goes into a wait for the next fire time.
C15_Claim ==
    \A c \in Cancellers : cwhen[c] = "invoking" =>
        /\ queue = <<>>
        /\ \A t \in Threads : ~Waiting(t)

\* C16: the cancelled flag only ever goes from false to true: no step of
\* run() or cancel(), in any interleaving, takes it from true back to false.
C16_Claim == [][cancelled => cancelled']_vars

\* C17: cancel() on a running executor changes no state of another one that
\* is running: it leaves that executor's cancelled flag and pending event
\* alone, and a wait of that executor ends before its time only when cancel()
\* has been called on that executor itself.
C17_Claim ==
    /\ [][(cpc'[1] # cpc[1]) =>
            UNCHANGED <<peer_cancelled, peer_queue, peer_next_event>>]_vars
    /\ []((peer_early /\ cwhen[1] \notin {"none", "prerun"}) =>
            peer_cpc # "idle")

\* The scheduler's loop is running on thread t: in a blocking run() or on the
\* background thread.
InLoop(t) ==
    \/ pc[t] \in {"sched_top", "sched_delay", "sleep_wait", "sched_yield"}
    \/ InSingle(t) /\ ret[t] = "sched_yield"

\* No thread is in run() or in the scheduler's loop any more.
LoopOver ==
    /\ pc["main"] \in {"returned", "raised"}
    /\ pc["bg"] \in {"unborn", "dead", "raised"}
    /\ thread # "alive"

\* C18: when cancel() has been called on an executor whose loop is running
\* (the flag is set, the call has done nothing else yet), then, with a clock
\* that advances and a func that returns, the loop ends with an empty queue -
\* the blocking run() is left, the background thread is dead - and the
\* cancel() call returns from its join.
C18_Termination ==
    (cpc[1] = "cancel_event" /\ cancelled /\ \E t \in Threads : InLoop(t))
        ~> (LoopOver /\ queue = <<>> /\ cpc[1] = "done")

\* C18 witness: a cancel() that was called during a wait of the background
\* thread has returned from its join, the thread is dead, the queue is empty.
C18_Witness ==
    /\ cwhen[1] = "wait"
    /\ cpc[1] = "done"
    /\ ~blocking
    /\ thread = "dead"
    /\ pc["bg"] = "dead"
    /\ LoopOver
    /\ queue = <<>>
    /\ calls >= 1

\* C19: with the handler installed, a SIGINT at any point of a blocking run()
\* does what cancel() is to do: the handler leaves no event pending, and once
\* it has run the flag is set, no invocation starts, and the loop does not
\* sit in a wait that only the clock can end.  Without the handler a SIGINT
\* never sets the flag.
C19_Claim ==
    /\ [](sig = "handled" =>
            /\ cancelled
            /\ \A t \in Threads :
                   ~(pc[t] = "sleep_wait" /\ ~sleep_event /\ now < wakeAt[t]))
    /\ [][(sig = "none" /\ sig' = "handled") => queue' = <<>>]_vars
    /\ [][sig = "handled" => calls' = calls]_vars
    /\ [](~handle_sigint => ~cancelled /\ sig # "handled")

\* C20: cancel() called by func itself, in a blocking or a non-blocking run,
\* ends without an error, and no invocation starts after it.
C20_Claim ==
    /\ [](selfc # "error")
    /\ [][selfc # "none" => calls' = calls]_vars

====
